---- MODULE Spec2Model ----
(***************************************************************************)
(* Discount / pricing decision engine of AISalesAssistant:                 *)
(*   CouponRepository.validate_coupon_for_user, Coupon.calculate_discount, *)
(*   CouponRepository.use_coupon, DiscountRepository (applied-discount     *)
(*   ledger), PriceCalculatorService.apply_agent_discount_decision,        *)
(*   OrderRepository.create_order_with_items and OrderService.create_order.*)
(*                                                                         *)
(* Conventions                                                             *)
(*  - Money is an integer number of cents (300.00 -> 30000).  Fractions    *)
(*    (a percentage coupon's discount_value, an applied discount's         *)
(*    discount_value, the catalog bounds) are integers in hundredths       *)
(*    (0.20 -> 20).  The amounts used are whole hundreds of the currency   *)
(*    unit, so every Decimal product of the code is exact in cents.        *)
(*  - Python None is the value None; Truthy(x) is Python's `if x:` on an   *)
(*    Optional number.                                                     *)
(*  - The relational store is generic: a table holds the columns the       *)
(*    repositories read and write.  The data-transfer classes of           *)
(*    app/models (pydantic) are modelled by their declared fields: a       *)
(*    constructor call that omits a required field raises, and reading a   *)
(*    field the class does not declare raises.                             *)
(*  - Error messages are named in English:                                 *)
(*      not_found "优惠券不存在", inactive "优惠券已停用",                 *)
(*      not_started "优惠券尚未开始使用", expired "优惠券已过期",          *)
(*      usage_limit_reached "优惠券使用次数已达上限",                      *)
(*      below_min_order "订单金额不满足最低要求",                          *)
(*      per_user_limit_reached "您已达到该优惠券的使用上限".               *)
(***************************************************************************)
EXTENDS Integers, Sequences, FiniteSets, TLC

VARIABLES
    coupons,    \* coupons table: coupon_id -> row
    usages,     \* coupon_usage table: sequence of rows
    discounts,  \* applied_discounts table: sequence of rows, id = index
    history,    \* discount_usage_history table: sequence of rows
    orders,     \* orders table: sequence of rows
    ud,         \* in-flight use_discount calls, one per concurrent request
    last,       \* the most recently completed call: its arguments and what it gave back
    dirty,      \* TRUE iff a coupon write happened after the last validation
    catalog,    \* DISCOUNT_OPTIONS_CONFIG, the module-level dict of the option catalog
    rd,         \* in-flight coupon redemptions, one per concurrent request
    cache       \* coupon_cache: the keys present and the value stored under each

vars == <<coupons, usages, discounts, history, orders, ud, last, dirty, catalog, rd, cache>>

None == -1

NoneStr == "None"

Truthy(x) == x # None /\ x # 0

Min(a, b) == IF a <= b THEN a ELSE b

Max(a, b) == IF a >= b THEN a ELSE b

(***************************************************************************)
(* Bounds                                                                  *)
(***************************************************************************)
MaxUsages == 2

MaxDiscounts == 2

MaxOrders == 2

(***************************************************************************)
(* Input universes                                                         *)
(***************************************************************************)
Users == {"u1", "u2"}

CouponIds == {"cp1", "cp9"}          \* cp9 is never stored

CouponCodes == {"PYTHON50", "NOPE"}  \* NOPE is never stored

OrderAmounts == {0, 10000, 30000, 100000}

Times == 0 .. 3

CourseIdLists == { <<"c1">>, <<"c1", "c2">>, <<"cX">>, <<"c1", "cX">> }   \* cX is not a course

Reasonings == {"price sensitive"}

(***************************************************************************)
(* Coupon rows                                                             *)
(***************************************************************************)
\* Coupon field constraints and validators (to_model builds a Coupon from the row)
CouponModelOK(c) ==
    /\ c.discount_value >= 0
    /\ c.min_order_amount >= 0
    /\ (c.max_discount # None => c.max_discount >= 0)
    /\ (c.usage_limit # None => c.usage_limit >= 1)
    /\ (c.usage_limit_per_user # None => c.usage_limit_per_user >= 1)
    /\ c.used_count >= 0
    /\ c.valid_to > c.valid_from
    /\ (c.coupon_type = "percentage" => c.discount_value <= 100)
    /\ (c.coupon_type = "fixed_amount" => c.discount_value > 0)

CouponRows ==
    { c \in [ coupon_code : {"PYTHON50"},
              coupon_type : {"percentage", "fixed_amount"},
              discount_value : {20, 100, 5000, 40000},
              min_order_amount : {0, 20000},
              max_discount : {None, 0, 5000},
              valid_from : {1},
              valid_to : {2},
              usage_limit : {None, 1},
              usage_limit_per_user : {None, 1},
              used_count : {0},
              status : {"active", "inactive"} ] :
        /\ CouponModelOK(c)
        /\ (c.coupon_type = "percentage" <=> c.discount_value <= 100) }

\* select(CouponDB).where(coupon_code == code) ... scalar_one_or_none()
\* (a lookup that finds no row gives the empty set, a found row the singleton)
get_by_coupon_code(code) == { id \in DOMAIN coupons : coupons[id].coupon_code = code }

\* select(CouponDB).where(coupon_id == id) ... scalar_one_or_none()
get_by_coupon_id(id) == { i \in DOMAIN coupons : i = id }

\* select(count(usage_id)).where(user_id == user, coupon_id == id)
get_user_coupon_usage_count(user, id) ==
    Cardinality({ i \in 1 .. Len(usages) :
                    usages[i].user_id = user /\ usages[i].coupon_id = id })

(***************************************************************************)
(* Coupon.calculate_discount                                               *)
(***************************************************************************)
calculate_discount(c, order_amount) ==
    IF order_amount < c.min_order_amount THEN 0
    ELSE LET raw == IF c.coupon_type = "percentage"
                    THEN (order_amount * c.discount_value) \div 100
                    ELSE c.discount_value
             capped == IF Truthy(c.max_discount) /\ raw > c.max_discount
                       THEN c.max_discount ELSE raw
         IN  Min(capped, order_amount)

(***************************************************************************)
(* CouponRepository.validate_coupon_for_user                               *)
(***************************************************************************)
Invalid(err, cp, minreq, looked) ==
    [ is_valid |-> FALSE, validation_errors |-> <<err>>, coupon |-> cp,
      estimated_discount |-> 0, min_order_required |-> minreq,
      usage_lookup |-> looked ]

\* lines 172-180: the discount of a coupon that passed every check
validated_discount(c, order_amount) ==
    IF c.coupon_type = "fixed_amount"
    THEN Min(c.discount_value, order_amount)
    ELSE LET raw == (order_amount * c.discount_value) \div 100
             capped == IF Truthy(c.max_discount) THEN Min(raw, c.max_discount) ELSE raw
         IN  Min(capped, order_amount)

\* validate_coupon_for_user with the minimum-order check moved in front of the status check
validate_coupon_for_user_reordered(code, user, order_amount, now) ==
    LET found == get_by_coupon_code(code)
        id == CHOOSE i \in found : TRUE
        c == coupons[id]
    IN
    IF found = {} THEN Invalid("not_found", NoneStr, None, FALSE)
    ELSE IF order_amount < c.min_order_amount
         THEN Invalid("below_min_order", c.coupon_code, c.min_order_amount, FALSE)
    ELSE IF c.status # "active" THEN Invalid("inactive", c.coupon_code, None, FALSE)
    ELSE IF now < c.valid_from THEN Invalid("not_started", c.coupon_code, None, FALSE)
    ELSE IF now > c.valid_to THEN Invalid("expired", c.coupon_code, None, FALSE)
    ELSE IF Truthy(c.usage_limit) /\ c.used_count >= c.usage_limit
         THEN Invalid("usage_limit_reached", c.coupon_code, None, FALSE)
    ELSE IF Truthy(c.usage_limit_per_user)
            /\ get_user_coupon_usage_count(user, id) >= c.usage_limit_per_user
         THEN Invalid("per_user_limit_reached", c.coupon_code, None, TRUE)
    ELSE [ is_valid |-> TRUE, validation_errors |-> <<>>, coupon |-> c.coupon_code,
           estimated_discount |-> validated_discount(c, order_amount),
           min_order_required |-> None,
           usage_lookup |-> Truthy(c.usage_limit_per_user) ]

\* usage_lookup records whether get_user_coupon_usage_count was called
validate_coupon_for_user(code, user, order_amount, now) ==
    LET found == get_by_coupon_code(code)
        id == CHOOSE i \in found : TRUE
        c == coupons[id]
    IN
    IF found = {} THEN Invalid("not_found", NoneStr, None, FALSE)
    ELSE IF c.status # "active" THEN Invalid("inactive", c.coupon_code, None, FALSE)
    ELSE IF now < c.valid_from THEN Invalid("not_started", c.coupon_code, None, FALSE)
    ELSE IF now > c.valid_to THEN Invalid("expired", c.coupon_code, None, FALSE)
    ELSE IF Truthy(c.usage_limit) /\ c.used_count >= c.usage_limit
         THEN Invalid("usage_limit_reached", c.coupon_code, None, FALSE)
    ELSE IF order_amount < c.min_order_amount
         THEN Invalid("below_min_order", c.coupon_code, c.min_order_amount, FALSE)
    ELSE IF Truthy(c.usage_limit_per_user)
            /\ get_user_coupon_usage_count(user, id) >= c.usage_limit_per_user
         THEN Invalid("per_user_limit_reached", c.coupon_code, None, TRUE)
    ELSE [ is_valid |-> TRUE, validation_errors |-> <<>>, coupon |-> c.coupon_code,
           estimated_discount |-> validated_discount(c, order_amount),
           min_order_required |-> None,
           usage_lookup |-> Truthy(c.usage_limit_per_user) ]

\* a validation that counts itself as a use of the coupon it finds
ValidateWritesCounting(code) ==
    [ id \in DOMAIN coupons |->
        IF coupons[id].coupon_code = code
        THEN [ coupons[id] EXCEPT !.used_count = @ + 1 ]
        ELSE coupons[id] ]

\* the coupons table after a validation: the function issues SELECTs only
ValidateWrites(code) == coupons

(***************************************************************************)
(* CouponRepository.get_user_available_coupons                             *)
(***************************************************************************)
\* a comparison in a WHERE clause: with NULL on either side it is not true
SqlLess(a, b) == a # None /\ b # None /\ a < b

\* the outer-joined per-user count: NULL when the user has no usage row of the coupon
user_used_count(user, id) ==
    LET n == get_user_coupon_usage_count(user, id) IN IF n = 0 THEN None ELSE n

\* the coupon_ids of the rows the query selects
get_user_available_coupons(user, order_amount, now) ==
    { id \in DOMAIN coupons :
        LET c == coupons[id] IN
        /\ c.status = "active"
        /\ c.valid_from <= now
        /\ c.valid_to >= now
        /\ SqlLess(c.used_count, c.usage_limit)
        /\ c.min_order_amount <= order_amount
        /\ \/ user_used_count(user, id) = None
           \/ SqlLess(user_used_count(user, id), c.usage_limit_per_user) }

(***************************************************************************)
(* Discount option catalog: DISCOUNT_OPTIONS_CONFIG, bounds in hundredths  *)
(***************************************************************************)
DISCOUNT_OPTIONS_CONFIG ==
    [ new_user          |-> [ discount_type |-> "percentage", min_discount |-> 10,
                              max_discount |-> 30 ],
      urgent_conversion |-> [ discount_type |-> "percentage", min_discount |-> 15,
                              max_discount |-> 40 ],
      returning_user    |-> [ discount_type |-> "percentage", min_discount |-> 5,
                              max_discount |-> 20 ],
      bulk_purchase     |-> [ discount_type |-> "percentage", min_discount |-> 10,
                              max_discount |-> 25 ],
      vip_discount      |-> [ discount_type |-> "percentage", min_discount |-> 20,
                              max_discount |-> 50 ] ]

\* enum DiscountOptionType
DiscountOptionType ==
    { "new_user", "urgent_conversion", "returning_user", "bulk_purchase", "vip_discount" }

\* get_discount_options: one DiscountOption per entry of the catalog, keyed by its type
get_discount_options ==
    [ option_key \in DOMAIN catalog |->
        [ option_type |-> option_key, discount_type |-> catalog[option_key].discount_type,
          min_discount |-> catalog[option_key].min_discount,
          max_discount |-> catalog[option_key].max_discount, is_active |-> TRUE ] ]

\* get_discount_option: options.get(option_type), the empty set standing for None
get_discount_option(option_type) ==
    { get_discount_options[k] : k \in { k \in DOMAIN get_discount_options : k = option_type } }

\* a range check with exclusive bounds
validate_discount_in_range_exclusive(option_type, discount_value) ==
    \E option \in get_discount_option(option_type) :
        option.min_discount < discount_value /\ discount_value < option.max_discount

\* validate_discount_in_range
validate_discount_in_range(option_type, discount_value) ==
    \E option \in get_discount_option(option_type) :
        option.min_discount <= discount_value /\ discount_value <= option.max_discount

\* DiscountConfig.is_discount_in_range over a config whose options are the catalog's
is_discount_in_range(option_type, discount_value) ==
    LET options == get_discount_options
        option == { options[k] : k \in { k \in DOMAIN options : k = option_type } }
    IN  IF option = {} THEN FALSE
        ELSE \E o \in option : o.min_discount <= discount_value /\ discount_value <= o.max_discount

(***************************************************************************)
(* Initial state                                                           *)
(***************************************************************************)
NoCall == [ op |-> "none" ]

IdleCall == [ pc |-> "idle", discount_id |-> 0, order_id |-> NoneStr, rowcount |-> 0,
              result |-> FALSE ]

Callers == {"r1", "r2", "r3"}

\* the requests that redeem a coupon concurrently
Redeemers == {"r1", "r2"}

IdleRedeem == [ pc |-> "idle", user |-> NoneStr, amount |-> 0 ]

\* a cache with no key
EmptyCache == [ k \in {} |-> {} ]

Init ==
    /\ coupons \in [ {"cp1"} -> CouponRows ]
    /\ usages = <<>>
    /\ discounts = <<>>
    /\ history = <<>>
    /\ orders = <<>>
    /\ ud = [ p \in Callers |-> IdleCall ]
    /\ last = NoCall
    /\ dirty = FALSE
    /\ catalog = DISCOUNT_OPTIONS_CONFIG
    /\ rd = [ p \in Redeemers |-> IdleRedeem ]
    /\ cache = EmptyCache

(***************************************************************************)
(* Coupon operations                                                       *)
(***************************************************************************)
\* repeat: this call has the arguments of the validation completed just before it,
\* and nothing wrote to the coupon tables in between
ValidateCoupon(code, user, amount, now) ==
    /\ last' = [ op |-> "validate", code |-> code, user |-> user, amount |-> amount,
                 now |-> now, result |-> validate_coupon_for_user(code, user, amount, now),
                 repeat |-> /\ last.op = "validate"
                            /\ ~dirty
                            /\ last.code = code /\ last.user = user
                            /\ last.amount = amount /\ last.now = now ]
    /\ coupons' = ValidateWrites(code)
    /\ dirty' = FALSE
    /\ UNCHANGED <<catalog, rd, cache, usages, discounts, history, orders, ud>>

CalculateDiscount(amount) ==
    /\ last' = [ op |-> "calculate_discount", amount |-> amount,
                 result |-> calculate_discount(coupons["cp1"], amount) ]
    /\ UNCHANGED <<catalog, rd, cache, coupons, usages, discounts, history, orders, ud, dirty>>

GetUserAvailableCoupons(user, amount, now) ==
    /\ last' = [ op |-> "available", user |-> user, amount |-> amount, now |-> now,
                 result |-> get_user_available_coupons(user, amount, now) ]
    /\ UNCHANGED <<catalog, rd, cache, coupons, usages, discounts, history, orders, ud, dirty>>

\* a use that leaves used_count as it was
UsedCountKept(used_count) == used_count

\* lines 265-272: UPDATE coupons SET used_count = used_count + 1
UsedCountAfterUse(used_count) == used_count + 1

\* How the UPDATE of use_coupon ends.  When it fails the exception is caught and the
\* call returns False; the usage row was already flushed by then.  What is left of it
\* is the store's choice: a store that aborts the transaction on a failed statement
\* drops the row at the session's commit, one that rolls back the statement alone
\* commits it (get_db_session commits whatever the session holds).
StoreOutcomes == {"ok", "update_fails_tx_aborted", "update_fails_tx_open"}

\* the outcomes on PostgreSQL, the store of the default database URL
PostgresOutcomes == {"ok", "update_fails_tx_aborted"}

\* CouponRepository.use_coupon: usage row, then used_count + 1.
use_coupon(id, user, order, amount, outcome) ==
    /\ Len(usages) < MaxUsages
    /\ LET found == get_by_coupon_id(id)
           c == coupons[id]
           usage == [ coupon_id |-> id, coupon_code |-> c.coupon_code,
                      user_id |-> user, order_id |-> order,
                      discount_amount |-> amount ]
       IN
       IF found = {} \/ outcome = "update_fails_tx_aborted"
       THEN /\ last' = [ op |-> "use_coupon", coupon_id |-> id, user |-> user, result |-> FALSE ]
            /\ UNCHANGED <<coupons, usages>>
       ELSE IF outcome = "update_fails_tx_open"
       THEN /\ usages' = Append(usages, usage)
            /\ coupons' = coupons
            /\ last' = [ op |-> "use_coupon", coupon_id |-> id, user |-> user, result |-> FALSE ]
       ELSE /\ usages' = Append(usages, usage)
            /\ coupons' = [ coupons EXCEPT ![id].used_count = UsedCountAfterUse(@) ]
            /\ last' = [ op |-> "use_coupon", coupon_id |-> id, user |-> user, result |-> TRUE ]
    /\ dirty' = TRUE

UseCoupon(id, user, order, amount, outcome) ==
    /\ use_coupon(id, user, order, amount, outcome)
    /\ UNCHANGED <<catalog, rd, cache, discounts, history, orders, ud>>

NextCoupon ==
    \/ \E code \in CouponCodes, user \in Users, amount \in OrderAmounts, now \in Times :
          ValidateCoupon(code, user, amount, now)
    \/ \E amount \in OrderAmounts : CalculateDiscount(amount)
    \/ \E id \in CouponIds, user \in Users, outcome \in PostgresOutcomes :
          UseCoupon(id, user, "o1", 5000, outcome)

SpecCoupon == Init /\ [][NextCoupon]_vars

\* use_coupon on any store the database URL may name
NextStore ==
    \E id \in CouponIds, user \in Users, outcome \in StoreOutcomes :
        UseCoupon(id, user, "o1", 5000, outcome)

SpecStore == Init /\ [][NextStore]_vars

\* the listing of a user's available coupons, between uses of the coupon
NextAvailable ==
    \/ \E user \in Users, amount \in OrderAmounts, now \in Times :
          GetUserAvailableCoupons(user, amount, now)
    \/ \E id \in CouponIds, user \in Users :
          UseCoupon(id, user, "o1", 5000, "ok")

SpecAvailable == Init /\ [][NextAvailable]_vars

(***************************************************************************)
(* Claims about coupons                                                    *)
(***************************************************************************)
TheCoupon == coupons["cp1"]

\* C2: every discount amount produced for a coupon, by Coupon.calculate_discount and by
\* a successful validation, is at most the order amount and, when the coupon has a
\* max_discount, at most max_discount.
C2_DiscountWithinOrderAndCap ==
    /\ last.op = "calculate_discount" =>
          /\ last.result <= last.amount
          /\ (TheCoupon.max_discount # None => last.result <= TheCoupon.max_discount)
    /\ (last.op = "validate" /\ last.result.is_valid) =>
          /\ last.result.estimated_discount <= last.amount
          /\ (TheCoupon.max_discount # None =>
                 last.result.estimated_discount <= TheCoupon.max_discount)

\* The seven checks of the validator as the specification lists them, on the store
\* and the arguments of the last validation; 0 when every check passes, otherwise
\* the number of the first check that fails.
CheckPasses(k) ==
    LET c == TheCoupon IN
    CASE k = 1 -> last.code = c.coupon_code
      [] k = 2 -> c.status = "active"
      [] k = 3 -> last.now >= c.valid_from
      [] k = 4 -> last.now <= c.valid_to
      [] k = 5 -> c.usage_limit = None \/ c.used_count < c.usage_limit
      [] k = 6 -> last.amount >= c.min_order_amount
      [] k = 7 -> \/ c.usage_limit_per_user = None
                  \/ Cardinality({ i \in 1 .. Len(usages) :
                                     /\ usages[i].user_id = last.user
                                     /\ usages[i].coupon_id = "cp1" })
                       < c.usage_limit_per_user

FailingChecks == IF ~CheckPasses(1) THEN 1 .. 7 ELSE { k \in 2 .. 7 : ~CheckPasses(k) }

FirstFailing == IF FailingChecks = {} THEN 0
                ELSE CHOOSE k \in FailingChecks : \A j \in FailingChecks : k <= j

ErrorOfCheck(k) ==
    CASE k = 1 -> "not_found"
      [] k = 2 -> "inactive"
      [] k = 3 -> "not_started"
      [] k = 4 -> "expired"
      [] k = 5 -> "usage_limit_reached"
      [] k = 6 -> "below_min_order"
      [] k = 7 -> "per_user_limit_reached"

\* C5: a validation is valid exactly when all seven checks pass; otherwise it carries
\* exactly one error, that of the first failing check in the listed order, with
\* discount amount 0, and the per-user usage count is looked up only when the six
\* checks before it passed.
C5_FirstFailingCheckOnly ==
    last.op = "validate" =>
        /\ last.result.is_valid <=> FirstFailing = 0
        /\ FirstFailing # 0 =>
              /\ last.result.validation_errors = << ErrorOfCheck(FirstFailing) >>
              /\ last.result.estimated_discount = 0
        /\ last.result.usage_lookup => FirstFailing \in {0, 7}

C5_Witness ==
    /\ last.op = "validate"
    /\ Cardinality(FailingChecks) >= 3
    /\ FirstFailing = 2
    /\ 6 \in FailingChecks
    /\ last.result.validation_errors = << "inactive" >>

\* C6: on a successful validation the reported discount is min(discount_value,
\* order_amount) for a fixed_amount coupon and, for a percentage coupon,
\* order_amount * discount_value capped by max_discount when set and then by
\* order_amount.
C6_ReportedDiscountFormula ==
    (last.op = "validate" /\ last.result.is_valid) =>
        LET c == TheCoupon
            raw == (last.amount * c.discount_value) \div 100
            capped == IF c.max_discount # None THEN Min(raw, c.max_discount) ELSE raw
        IN  last.result.estimated_discount =
                IF c.coupon_type = "fixed_amount"
                THEN Min(c.discount_value, last.amount)
                ELSE Min(capped, last.amount)

\* C7: a validation leaves the coupons table (used_count, status) and the usage
\* records as they were, whatever its verdict; the tables change only in a step of
\* the use operation.
C7_ValidationWritesNothing ==
    [][ /\ last'.op = "validate" => (coupons' = coupons /\ usages' = usages)
        /\ (coupons' # coupons \/ usages' # usages) => last'.op = "use_coupon" ]_vars

C7_Witness ==
    /\ last.op = "validate"
    /\ last.result.is_valid
    /\ Len(usages) = 1
    /\ TheCoupon.used_count = 1

C14_UsedCountMonotone ==
    [][ /\ \A id \in DOMAIN coupons : coupons'[id].used_count >= coupons[id].used_count
        /\ last'.op = "use_coupon" =>
              IF last'.result
              THEN coupons'[last'.coupon_id].used_count
                      = coupons[last'.coupon_id].used_count + 1
              ELSE \A id \in DOMAIN coupons :
                      coupons'[id].used_count = coupons[id].used_count ]_vars

\* the coupon was used twice, each use reported as successful
C14_Witness ==
    /\ last.op = "use_coupon" /\ last.result
    /\ coupons["cp1"].used_count = 2
    /\ Len(usages) = 2

\* C22: in every step of use_coupon, calls that return false included, the number of
\* usage records of a coupon grows by exactly the amount its used_count grows: no
\* usage row without its increment, no increment without its usage row.
UsageRowsOf(us, id) == Cardinality({ i \in 1 .. Len(us) : us[i].coupon_id = id })

C29_ValidatorAgreesWithCalculateDiscount ==
    (last.op = "validate" /\ last.result.is_valid
        /\ last.amount >= TheCoupon.min_order_amount) =>
        last.result.estimated_discount = calculate_discount(TheCoupon, last.amount)

\* C30: get_user_available_coupons returns exactly the coupons that
\* validate_coupon_for_user accepts for the same user, order amount and time,
\* coupons with usage_limit or usage_limit_per_user unset included.
C30_AvailableIffValidates ==
    last.op = "available" =>
        last.result =
            { id \in DOMAIN coupons :
                validate_coupon_for_user(coupons[id].coupon_code, last.user,
                                         last.amount, last.now).is_valid }

(***************************************************************************)
(* Applied-discount ledger: DiscountRepository                             *)
(***************************************************************************)
DefaultValidityHours == 24

\* create_applied_discount: the row it adds; no check of discount_value is made
NewAppliedDiscount(user, discount_type, discount_value, course_id, reasoning, now) ==
    [ user_id |-> user, discount_type |-> discount_type, discount_value |-> discount_value,
      course_id |-> course_id, order_id |-> NoneStr, agent_reasoning |-> reasoning,
      valid_until |-> now + DefaultValidityHours, is_used |-> FALSE ]

CreateAppliedDiscount(user, discount_type, discount_value, course_id, reasoning, now) ==
    /\ Len(discounts) < MaxDiscounts
    /\ discounts' = Append(discounts,
                           NewAppliedDiscount(user, discount_type, discount_value, course_id,
                                              reasoning, now))
    /\ last' = [ op |-> "create_applied_discount", id |-> Len(discounts) + 1 ]
    /\ UNCHANGED <<catalog, rd, cache, coupons, usages, history, orders, ud, dirty>>

\* the methods class DiscountRepository defines (it has no base class)
DiscountRepositoryMethods ==
    { "create_applied_discount", "get_user_active_discounts", "get_best_discount_for_user",
      "_calculate_discount_amount", "use_discount", "get_user_discount_history",
      "get_discount_effectiveness_stats", "clean_expired_discounts",
      "get_agent_discount_patterns", "to_model" }

\* an UPDATE ... WHERE id = discount_id, whatever is_used holds
UseDiscountMatchesAnyState(discount_id) ==
    { i \in 1 .. Len(discounts) : i = discount_id }

\* rows matched by UPDATE ... WHERE id = discount_id AND is_used = False
UseDiscountMatches(discount_id) ==
    { i \in 1 .. Len(discounts) : i = discount_id /\ ~discounts[i].is_used }

\* use_discount is called by a request
UseDiscountCall(p, discount_id, order) ==
    /\ ud[p].pc = "idle"
    /\ ud' = [ ud EXCEPT ![p] = [ pc |-> "update", discount_id |-> discount_id,
                                  order_id |-> order, rowcount |-> 0, result |-> FALSE ] ]
    /\ UNCHANGED <<catalog, rd, cache, coupons, usages, discounts, history, orders, last, dirty>>

\* lines 116-130: the conditional UPDATE, one statement of the store
UseDiscountUpdate(p) ==
    /\ ud[p].pc = "update"
    /\ LET hit == UseDiscountMatches(ud[p].discount_id) IN
       /\ discounts' = [ i \in 1 .. Len(discounts) |->
                           IF i \in hit
                           THEN [ discounts[i] EXCEPT !.is_used = TRUE,
                                                      !.order_id = ud[p].order_id ]
                           ELSE discounts[i] ]
       /\ ud' = [ ud EXCEPT ![p].pc = "returning", ![p].rowcount = Cardinality(hit) ]
    /\ UNCHANGED <<catalog, rd, cache, coupons, usages, history, orders, last, dirty>>

\* a use_discount that reports success whatever the UPDATE matched
UseDiscountResultAlways(rowcount) == TRUE

\* lines 132-147, the value returned: False when the UPDATE matched no row; otherwise
\* building the history row calls self.get, which the class does not define, and the
\* AttributeError is caught by `except Exception: return False`
UseDiscountResult(rowcount) ==
    IF rowcount = 0 THEN FALSE ELSE "get" \in DiscountRepositoryMethods

\* lines 132-147: the usage-history row and the return
UseDiscountFinish(p) ==
    /\ ud[p].pc = "returning"
    /\ LET ok == UseDiscountResult(ud[p].rowcount) IN
       /\ ud' = [ ud EXCEPT ![p].pc = "done", ![p].result = ok ]
       /\ history' = IF ok /\ ud[p].rowcount # 0
                     THEN Append(history, [ applied_discount_id |-> ud[p].discount_id,
                                            user_id |-> discounts[ud[p].discount_id].user_id,
                                            order_id |-> ud[p].order_id ])
                     ELSE history
    /\ UNCHANGED <<catalog, rd, cache, coupons, usages, discounts, orders, last, dirty>>

OrderOf(p) == CASE p = "r1" -> "o1" [] p = "r2" -> "o2" [] OTHER -> "o3"

DiscountTypesAndValues ==
    { <<"percentage", 15>>, <<"percentage", 90>>, <<"fixed_amount", 5000>> }

NextUse ==
    \/ \E user \in Users, tv \in DiscountTypesAndValues, reasoning \in Reasonings :
          CreateAppliedDiscount(user, tv[1], tv[2], NoneStr, reasoning, 1)
    \/ \E p \in Callers, id \in 1 .. MaxDiscounts + 1 : UseDiscountCall(p, id, OrderOf(p))
    \/ \E p \in Callers : UseDiscountUpdate(p)
    \/ \E p \in Callers : UseDiscountFinish(p)

\* the store of the ledger specifications holds the coupon of the specification's
\* Scenario A: fixed 50.00, minimum order 200.00
ScenarioCoupon ==
    [ coupon_code |-> "PYTHON50", coupon_type |-> "fixed_amount", discount_value |-> 5000,
      min_order_amount |-> 20000, max_discount |-> None, valid_from |-> 1, valid_to |-> 2,
      usage_limit |-> None, usage_limit_per_user |-> None, used_count |-> 0,
      status |-> "active" ]

InitLedger == Init /\ coupons = [ id \in {"cp1"} |-> ScenarioCoupon ]

SpecUse == InitLedger /\ [][NextUse]_vars

(***************************************************************************)
(* Concurrent redemptions: each request validates the coupon and, when the *)
(* validation passed, uses it (CouponService.use_coupon, create_order).    *)
(* The two calls are separate statements on the store; another request's   *)
(* calls may run between them.                                             *)
(***************************************************************************)
RedeemAmounts == {10000, 30000}

RedeemTimes == {1, 3}

\* the coupon of the ledger scenario with each combination of the two limits
RedeemCoupons ==
    { [ ScenarioCoupon EXCEPT !.usage_limit = l, !.usage_limit_per_user = q ] :
        l \in {None, 1}, q \in {None, 1} }

InitRedeem == Init /\ coupons \in [ {"cp1"} -> RedeemCoupons ]

\* first half of a redemption: validate_coupon_for_user
RedeemValidate(p, user, amount, now) ==
    /\ rd[p].pc = "idle"
    /\ LET v == validate_coupon_for_user("PYTHON50", user, amount, now) IN
       /\ rd' = [ rd EXCEPT ![p] = [ pc |-> IF v.is_valid THEN "validated" ELSE "rejected",
                                     user |-> user, amount |-> v.estimated_discount ] ]
       /\ last' = [ op |-> "redeem_validate", request |-> p, result |-> v ]
    /\ coupons' = ValidateWrites("PYTHON50")
    /\ UNCHANGED <<catalog, cache, usages, discounts, history, orders, ud, dirty>>

\* second half, of a request whose validation passed: use_coupon
RedeemUse(p, outcome) ==
    /\ rd[p].pc = "validated"
    /\ use_coupon("cp1", rd[p].user, "o1", rd[p].amount, outcome)
    /\ rd' = [ rd EXCEPT ![p].pc = "done" ]
    /\ UNCHANGED <<catalog, cache, discounts, history, orders, ud>>

\* the request is answered; the next request of this client starts from idle
RedeemReturn(p) ==
    /\ rd[p].pc \in {"rejected", "done"}
    /\ rd' = [ rd EXCEPT ![p] = IdleRedeem ]
    /\ UNCHANGED <<catalog, cache, coupons, usages, discounts, history, orders, ud, last,
                   dirty>>

NextRedeem ==
    \/ \E p \in Redeemers, user \in Users, amount \in RedeemAmounts, now \in RedeemTimes :
          RedeemValidate(p, user, amount, now)
    \/ \E p \in Redeemers, outcome \in PostgresOutcomes : RedeemUse(p, outcome)
    \/ \E p \in Redeemers : RedeemReturn(p)

SpecRedeem == InitRedeem /\ [][NextRedeem]_vars

\* C26: under every interleaving of concurrent validate-then-use redemptions, a
\* coupon with usage_limit set never has used_count above usage_limit, and with
\* usage_limit_per_user set no user has more usage records of it than that limit.
C26_LimitsNeverExceeded ==
    \A id \in DOMAIN coupons :
        LET c == coupons[id] IN
        /\ c.usage_limit # None => c.used_count <= c.usage_limit
        /\ c.usage_limit_per_user # None =>
              \A u \in Users : get_user_coupon_usage_count(u, id) <= c.usage_limit_per_user

OrderItemRequired == { "item_id", "course_id", "course_name", "original_price", "discounted_price" }

\* PriceCalculation: the fields declared without a default
PriceCalculationRequired ==
    { "course_items", "original_amount", "final_amount", "savings", "savings_percentage" }

\* OrderCreate: the fields declared without a default
OrderCreateRequired == { "user_id", "course_ids" }

\* CouponValidation: every field the class declares
CouponValidationFields ==
    { "is_valid", "coupon", "validation_errors", "applicable_courses", "estimated_discount",
      "min_order_required" }

\* a constructor that accepts whatever keyword arguments it is given
ConstructsAnything(required, kw) == TRUE

\* a pydantic constructor accepts keyword arguments kw iff every required field is given
Constructs(required, kw) == required \subseteq DOMAIN kw

Raised(error) == [ raised |-> TRUE, error |-> error ]

Returned(value) == [ raised |-> FALSE, value |-> value ]

(***************************************************************************)
(* Courses (read-only to the pricing core): course_id -> current_price     *)
(***************************************************************************)
Courses == [ c1 |-> 50000, c2 |-> 10000 ]

\* _get_courses: ids that do not resolve are dropped
_get_courses(course_ids) == SelectSeq(course_ids, LAMBDA id : id \in DOMAIN Courses)

RECURSIVE SumPrices(_)
SumPrices(courses) ==
    IF courses = <<>> THEN 0 ELSE Courses[Head(courses)] + SumPrices(Tail(courses))

\* the keyword arguments both services pass to OrderItem(...)
OrderItemArgs(course_id) ==
    [ course_id |-> course_id, course_name |-> course_id, original_price |-> Courses[course_id],
      discount_price |-> Courses[course_id], quantity |-> 1, subtotal |-> Courses[course_id] ]

\* the keyword arguments both services pass to PriceCalculation(...)
PriceCalculationArgs(original_total, coupon_discount, auto_discount, final_total, items) ==
    [ original_total |-> original_total, discount_total |-> coupon_discount + auto_discount,
      final_total |-> final_total, coupon_discount |-> coupon_discount,
      auto_discount |-> auto_discount, items |-> items ]

PriceCalculation(kw) ==
    IF Constructs(PriceCalculationRequired, kw) THEN Returned(kw) ELSE Raised("ValidationError")

\* the coupon step of both price computations: outcome and coupon_discount.
\* On a valid coupon the code reads validation.discount_amount.
CouponDiscountStep(coupon_code, user, original_total, now) ==
    IF coupon_code = NoneStr THEN Returned(0)
    ELSE LET validation == validate_coupon_for_user(coupon_code, user, original_total, now) IN
         IF ~validation.is_valid THEN Returned(0)
         ELSE IF "discount_amount" \in CouponValidationFields
              THEN Returned(validation.estimated_discount)
              ELSE Raised("AttributeError")

\* PriceCalculatorService._empty_price_calculation
_empty_price_calculation == PriceCalculation(PriceCalculationArgs(0, 0, 0, 0, <<>>))

\* PriceCalculatorService._calculate_base_price
_calculate_base_price(courses, user, coupon_code, now) ==
    LET original_total == SumPrices(courses)
        coupon == CouponDiscountStep(coupon_code, user, original_total, now)
        items == [ i \in 1 .. Len(courses) |-> OrderItemArgs(courses[i]) ]
    IN  IF coupon.raised THEN coupon
        ELSE IF \E i \in 1 .. Len(items) : ~Constructs(OrderItemRequired, items[i])
             THEN Raised("ValidationError")
        ELSE PriceCalculation(PriceCalculationArgs(original_total, coupon.value, 0,
                                                   original_total - coupon.value, items))

\* lines 106-113: the amount of the discount the agent selected.  selected.value is
\* Decimal(str(value)) in hundredths; the percentage branch divides the value by 100.
AgentDiscountAmount(selected, original_total) ==
    IF selected.type = "percentage" THEN (original_total * selected.value) \div 10000
    ELSE IF selected.type = "fixed_amount" THEN Min(selected.value, original_total)
    ELSE 0

\* PriceCalculatorService.apply_agent_discount_decision: what the call gives back and
\* the applied-discount rows it creates on the way
apply_agent_discount_decision(user, course_ids, selected, reasoning, coupon_code, now) ==
    LET courses == _get_courses(course_ids)
        base == _calculate_base_price(courses, user, coupon_code, now)
        applies == selected.type # "none"
        agent_discount == IF applies THEN AgentDiscountAmount(selected, base.value.original_total)
                          ELSE 0
        total_discount == base.value.coupon_discount + agent_discount
        final_total == Max(base.value.original_total - total_discount, 0)
    IN  IF courses = <<>> THEN [ result |-> _empty_price_calculation, created |-> <<>> ]
        ELSE IF base.raised THEN [ result |-> base, created |-> <<>> ]
        ELSE [ result |-> PriceCalculation(
                            PriceCalculationArgs(base.value.original_total,
                                                 base.value.coupon_discount, agent_discount,
                                                 final_total, base.value.items)),
               created |-> IF applies
                           THEN << NewAppliedDiscount(user, selected.type, selected.value, NoneStr,
                                                      reasoning, now) >>
                           ELSE <<>> ]

\* user_profile dicts; NoProfile stands for None (and the empty dict): `not user_profile`
NoProfile == [ absent |-> TRUE ]

UserProfiles ==
    { NoProfile,
      [ price_sensitivity |-> "high" ],
      [ price_sensitivity |-> "high", is_new_user |-> FALSE ],
      [ price_sensitivity |-> "low", value_perception |-> "high" ],
      [ is_new_user |-> FALSE, purchase_history_count |-> 3 ] }

\* user_profile.get(key, default)
Get(user_profile, key, default) ==
    IF key \in DOMAIN user_profile THEN user_profile[key] ELSE default

\* PriceCalculatorService._should_offer_category
_should_offer_category(category, user_profile, courses) ==
    IF user_profile = NoProfile THEN TRUE
    ELSE IF category = "new_user" /\ Get(user_profile, "is_new_user", TRUE) THEN TRUE
    ELSE IF category = "price_sensitive"
            /\ Get(user_profile, "price_sensitivity", NoneStr) = "high" THEN TRUE
    ELSE IF category = "loyalty" /\ Get(user_profile, "purchase_history_count", 0) > 2 THEN TRUE
    ELSE IF category = "bulk_purchase" /\ Len(courses) >= 2 THEN TRUE
    ELSE category = "general"

\* PriceCalculatorService._calculate_discount_amount for an option
OptionDiscountAmount(option, base_amount) ==
    IF option.type = "percentage" THEN (base_amount * option.value) \div 10000
    ELSE IF option.type = "fixed_amount" THEN Min(option.value, base_amount)
    ELSE 0

\* PriceCalculatorService._calculate_option_score, in hundredths
_calculate_option_score(option, user_profile, base_amount) ==
    LET price_sensitivity == Get(user_profile, "price_sensitivity", "medium")
        s1 == 50 + (IF price_sensitivity = "high" THEN 30
                    ELSE IF price_sensitivity = "low" THEN -20 ELSE 0)
        discount_amount == OptionDiscountAmount(option, base_amount)
        \* discount_percentage = discount_amount / base_amount * 100, compared exactly
        s2 == IF base_amount > 0 /\ 10 * base_amount <= 100 * discount_amount
                                 /\ 100 * discount_amount <= 25 * base_amount
              THEN s1 + 20
              ELSE IF base_amount > 0 /\ 100 * discount_amount > 30 * base_amount
              THEN s1 - 10
              ELSE s1
    IN  IF user_profile = NoProfile THEN 50 ELSE Max(0, Min(100, s2))

\* PriceCalculatorService._calculate_no_discount_score, in hundredths
_calculate_no_discount_score(user_profile) ==
    LET price_sensitivity == Get(user_profile, "price_sensitivity", NoneStr)
        s1 == 30 + (IF price_sensitivity = "low" THEN 40
                    ELSE IF price_sensitivity = "high" THEN -20 ELSE 0)
        s2 == s1 + (IF Get(user_profile, "value_perception", NoneStr) = "high" THEN 20 ELSE 0)
    IN  IF user_profile = NoProfile THEN 30 ELSE Max(0, Min(100, s2))

\* PriceCalculatorService._get_discount_options_for_agent.  The "no discount" option
\* comes first; for the first catalog category that is offered the loop reads
\* config["options"], a key no catalog entry has.
_get_discount_options_for_agent(courses, base_amount, user_profile) ==
    LET none_option == [ type |-> "none", value |-> 0, estimated_discount |-> 0,
                         final_amount |-> base_amount,
                         recommendation_score |-> _calculate_no_discount_score(user_profile) ]
        offered == { category \in DOMAIN catalog :
                       _should_offer_category(category, user_profile, courses) }
    IN  IF \E category \in offered : "options" \notin DOMAIN catalog[category]
        THEN Raised("KeyError")
        ELSE Returned(<< none_option >>)

\* PriceCalculatorService._select_recommended_option: max() keeps the first maximum
_select_recommended_option(options) ==
    IF options = <<>> THEN {}
    ELSE LET best == { i \in 1 .. Len(options) :
                         \A j \in 1 .. Len(options) :
                            options[j].recommendation_score <= options[i].recommendation_score }
         IN  { options[CHOOSE i \in best : \A j \in best : i <= j] }

\* PriceCalculatorService._empty_price_result
_empty_price_result ==
    IF _empty_price_calculation.raised THEN _empty_price_calculation
    ELSE Returned([ base_calculation |-> _empty_price_calculation.value,
                    discount_options |-> <<>>, recommended_option |-> {} ])

\* PriceCalculatorService.calculate_price_with_options
calculate_price_with_options(course_ids, user, user_profile, coupon_code, now) ==
    LET courses == _get_courses(course_ids)
        base == _calculate_base_price(courses, user, coupon_code, now)
        discount_options == _get_discount_options_for_agent(courses, base.value.original_total,
                                                            user_profile)
    IN  IF courses = <<>> THEN _empty_price_result
        ELSE IF base.raised THEN base
        ELSE IF discount_options.raised THEN discount_options
        ELSE Returned([ base_calculation |-> base.value,
                        discount_options |-> discount_options.value,
                        recommended_option |->
                            _select_recommended_option(discount_options.value) ])

Selections ==
    { [ type |-> "none", value |-> 0 ], [ type |-> "percentage", value |-> 15 ],
      [ type |-> "percentage", value |-> 90 ], [ type |-> "fixed_amount", value |-> 5000 ] }

ApplyAgentDiscountDecision(user, course_ids, selected, reasoning, coupon_code, now) ==
    /\ Len(discounts) < MaxDiscounts
    /\ LET r == apply_agent_discount_decision(user, course_ids, selected, reasoning,
                                              coupon_code, now) IN
       /\ discounts' = discounts \o r.created
       /\ last' = [ op |-> "apply_agent_discount_decision", user |-> user,
                    course_ids |-> course_ids, selected |-> selected,
                    reasoning |-> reasoning, coupon_code |-> coupon_code, now |-> now,
                    result |-> r.result ]
    /\ UNCHANGED <<catalog, rd, cache, coupons, usages, history, orders, ud, dirty>>

CalculatePriceWithOptions(user, course_ids, user_profile, coupon_code, now) ==
    /\ last' = [ op |-> "calculate_price_with_options", user |-> user,
                 course_ids |-> course_ids, user_profile |-> user_profile,
                 coupon_code |-> coupon_code, now |-> now,
                 result |-> calculate_price_with_options(course_ids, user, user_profile,
                                                         coupon_code, now) ]
    /\ UNCHANGED <<catalog, rd, cache, coupons, usages, discounts, history, orders, ud, dirty>>

NextApply ==
    \/ \E user \in Users, tv \in DiscountTypesAndValues, reasoning \in Reasonings :
          CreateAppliedDiscount(user, tv[1], tv[2], NoneStr, reasoning, 1)
    \/ \E user \in Users, course_ids \in CourseIdLists, selected \in Selections,
          reasoning \in Reasonings, coupon_code \in CouponCodes \cup {NoneStr}, now \in {1, 3} :
          ApplyAgentDiscountDecision(user, course_ids, selected, reasoning, coupon_code, now)
    \/ \E user \in Users, course_ids \in CourseIdLists, user_profile \in UserProfiles,
          coupon_code \in CouponCodes \cup {NoneStr}, now \in {1, 3} :
          CalculatePriceWithOptions(user, course_ids, user_profile, coupon_code, now)

SpecApply == InitLedger /\ [][NextApply]_vars

ExpectedCouponDiscount(coupon_code, user, original_total, now) ==
    IF coupon_code = NoneStr THEN 0
    ELSE validate_coupon_for_user(coupon_code, user, original_total, now).estimated_discount

ExpectedAgentDiscount(selected, original_total) ==
    CASE selected.type = "percentage" -> (original_total * selected.value) \div 100
      [] selected.type = "fixed_amount" -> Min(selected.value, original_total)
      [] OTHER -> 0

ResolvedCall == last.op = "apply_agent_discount_decision" /\ _get_courses(last.course_ids) # <<>>

\* C9: apply_agent_discount_decision on resolved courses returns
\* final_total = max(0, original_total - coupon_discount - agent_discount);
\* percentage 0.15 on a 500.00 base with no coupon returns 425.00.
C9_FinalTotalReturned ==
    ResolvedCall =>
        LET original_total == SumPrices(_get_courses(last.course_ids)) IN
        /\ ~last.result.raised
        /\ last.result.value.final_total =
              Max(0, original_total
                     - ExpectedCouponDiscount(last.coupon_code, last.user, original_total,
                                              last.now)
                     - ExpectedAgentDiscount(last.selected, original_total))

\* C10: a call on a non-empty resolved course set adds exactly one applied-discount
\* row, unused and carrying the selected value and the reasoning, when the selected
\* type is not "none"; it adds no row when the type is "none" or no course resolves.
C10_OneRecordPerDecision ==
    [][ last'.op = "apply_agent_discount_decision" =>
          IF _get_courses(last'.course_ids) # <<>> /\ last'.selected.type # "none"
          THEN /\ Len(discounts') = Len(discounts) + 1
               /\ SubSeq(discounts', 1, Len(discounts)) = discounts
               /\ ~discounts'[Len(discounts')].is_used
               /\ discounts'[Len(discounts')].discount_value = last'.selected.value
               /\ discounts'[Len(discounts')].agent_reasoning = last'.reasoning
          ELSE discounts' = discounts ]_vars

\* a completed calculate_price_with_options call in which a course id resolved
ResolvedOptionsCall ==
    last.op = "calculate_price_with_options" /\ _get_courses(last.course_ids) # <<>>

\* the discount of an option is 10%-25% of the base
InTrustZone(option, base_amount) ==
    /\ 10 * base_amount <= 100 * option.estimated_discount
    /\ 100 * option.estimated_discount <= 25 * base_amount

\* C11: for resolved courses, no coupon and a profile with price_sensitivity "high",
\* the call offers a discount option, scores "no discount" strictly below every offered
\* option whose discount is 10%-25% of the base, and recommends a discount option.
C11_HighSensitivityRecommendsDiscount ==
    ( /\ ResolvedOptionsCall
      /\ last.coupon_code = NoneStr
      /\ Get(last.user_profile, "price_sensitivity", NoneStr) = "high" ) =>
        /\ ~last.result.raised
        /\ LET r == last.result.value
               options == r.discount_options
               base_amount == r.base_calculation.original_total
           IN  /\ \E i \in 1 .. Len(options) : options[i].type # "none"
               /\ \A i, j \in 1 .. Len(options) :
                     ( /\ options[i].type = "none"
                       /\ options[j].type # "none"
                       /\ InTrustZone(options[j], base_amount) ) =>
                        options[i].recommendation_score < options[j].recommendation_score
               /\ \E o \in r.recommended_option : o.type # "none"

\* C12: in the result of a call with a resolved course, discount_options is ordered by
\* non-increasing recommendation_score and recommended_option is its first element.
C12_OptionsSortedBestFirst ==
    ResolvedOptionsCall =>
        /\ ~last.result.raised
        /\ LET options == last.result.value.discount_options IN
           /\ \A i, j \in 1 .. Len(options) :
                 i <= j => options[i].recommendation_score >= options[j].recommendation_score
           /\ options # <<>>
           /\ last.result.value.recommended_option = { options[1] }

PriceOf(result) ==
    IF "base_calculation" \in DOMAIN result THEN result.base_calculation ELSE result

\* C13: both price operations drop unresolved course ids without raising;
\* original_total sums the resolved ids, and when none resolves the result is the zeroed
\* calculation with no items, no options and no recommended option.
C13_UnresolvedIdsDropped ==
    ( /\ last.op \in { "calculate_price_with_options", "apply_agent_discount_decision" }
      /\ _get_courses(last.course_ids) # last.course_ids ) =>
        /\ ~last.result.raised
        /\ PriceOf(last.result.value).original_total = SumPrices(_get_courses(last.course_ids))
        /\ _get_courses(last.course_ids) = <<>> =>
              /\ PriceOf(last.result.value).final_total = 0
              /\ PriceOf(last.result.value).discount_total = 0
              /\ PriceOf(last.result.value).items = <<>>
              /\ last.op = "calculate_price_with_options" =>
                    /\ last.result.value.discount_options = <<>>
                    /\ last.result.value.recommended_option = {}

(***************************************************************************)
(* Orders: OrderRepository.create_order_with_items and OrderService        *)
(***************************************************************************)
\* DiscountRepository.get_user_active_discounts: indices of the user's unused,
\* unexpired applied discounts; with a course_id, those of that course or of no course
get_user_active_discounts(user, course_id, now) ==
    { i \in 1 .. Len(discounts) :
         /\ discounts[i].user_id = user
         /\ ~discounts[i].is_used
         /\ discounts[i].valid_until > now
         /\ course_id # NoneStr =>
               discounts[i].course_id = course_id \/ discounts[i].course_id = NoneStr }

\* DiscountRepository._calculate_discount_amount
_calculate_discount_amount(discount, order_amount) ==
    IF discount.discount_type = "percentage"
    THEN (order_amount * discount.discount_value) \div 10000
    ELSE IF discount.discount_type = "fixed_amount"
    THEN Min(discount.discount_value, order_amount)
    ELSE 0

\* DiscountRepository.get_best_discount_for_user: the rows max() may return.  The list
\* is ordered by discount_value descending and max() keeps the first maximum, so rows
\* that tie on the key and on discount_value are all possible.  order_amount = None
\* stands for the call without order_amount.
get_best_discount_for_user(user, course_id, order_amount, now) ==
    LET active == get_user_active_discounts(user, course_id, now)
        key(i) == IF Truthy(order_amount)
                  THEN _calculate_discount_amount(discounts[i], order_amount)
                  ELSE discounts[i].discount_value
        best == { i \in active : \A j \in active : key(j) <= key(i) }
    IN  { i \in best : \A j \in best : discounts[j].discount_value <= discounts[i].discount_value }

\* OrderService.calculate_order_price
calculate_order_price(course_ids, user, coupon_code, now) ==
    LET courses == _get_courses(course_ids)
        original_total == SumPrices(courses)
        coupon == CouponDiscountStep(coupon_code, user, original_total, now)
        best == get_best_discount_for_user(user, NoneStr, original_total, now)
        items == [ i \in 1 .. Len(courses) |-> OrderItemArgs(courses[i]) ]
        price(b) ==
            LET auto_discount == IF b = 0 THEN 0
                                 ELSE _calculate_discount_amount(discounts[b], original_total)
                total_discount == coupon.value + auto_discount
            IN  PriceCalculation(PriceCalculationArgs(original_total, coupon.value, auto_discount,
                                                      Max(original_total - total_discount, 0),
                                                      items))
    IN  IF courses = <<>> THEN { PriceCalculation(PriceCalculationArgs(0, 0, 0, 0, <<>>)) }
        ELSE IF coupon.raised THEN { coupon }
        ELSE IF \E i \in 1 .. Len(items) : ~Constructs(OrderItemRequired, items[i])
             THEN { Raised("ValidationError") }
        ELSE { price(b) : b \in IF best = {} THEN {0} ELSE best }

\* the keyword arguments OrderService.create_order passes to OrderCreate(...)
OrderCreateArgs(order_id, price_calc, coupon_code) ==
    [ order_id |-> order_id, items |-> price_calc.items,
      original_total |-> price_calc.original_total,
      discount_total |-> price_calc.discount_total, final_total |-> price_calc.final_total,
      coupon_discount |-> price_calc.coupon_discount,
      auto_discount |-> price_calc.auto_discount, coupon_code |-> coupon_code,
      payment_method |-> "alipay", notes |-> NoneStr ]

\* the row OrderRepository.create_order_with_items adds for order_data
NewOrder(order_data, user) ==
    [ order_id |-> order_data.order_id, user_id |-> user,
      original_amount |-> order_data.original_total,
      discount_amount |-> order_data.discount_total,
      final_amount |-> order_data.final_total,
      coupon_discount |-> order_data.coupon_discount,
      applied_coupon_code |-> order_data.coupon_code,
      order_status |-> "pending", payment_status |-> "pending" ]

\* the keyword parameters of CouponRepository.use_coupon
UseCouponParameters == { "coupon_id", "user_id", "order_id", "discount_amount" }

\* OrderService.create_order for one outcome of the price computation: what the call
\* gives back and the order rows its session commits (get_db_session rolls the session
\* back when the call raises)
\* and, in flushed, the rows the session holds when the call ends (a caller that
\* catches the exception lets the session commit them)
create_order(price_calc, order_id, user, coupon_code) ==
    LET kw == OrderCreateArgs(order_id, price_calc.value, coupon_code) IN
    IF price_calc.raised THEN [ result |-> price_calc, persisted |-> <<>>, flushed |-> <<>> ]
    ELSE IF ~Constructs(OrderCreateRequired, kw)
         THEN [ result |-> Raised("ValidationError"), persisted |-> <<>>, flushed |-> <<>> ]
    ELSE IF /\ coupon_code # NoneStr
            /\ price_calc.value.coupon_discount > 0
            /\ "coupon_code" \notin UseCouponParameters
         THEN [ result |-> Raised("TypeError"), persisted |-> <<>>,
                flushed |-> << NewOrder(kw, user) >> ]
    ELSE [ result |-> Returned(NewOrder(kw, user)), persisted |-> << NewOrder(kw, user) >>,
           flushed |-> << NewOrder(kw, user) >> ]

NextOrderId == CASE Len(orders) = 0 -> "o1" [] Len(orders) = 1 -> "o2" [] OTHER -> "o3"

CreateOrder(user, course_ids, coupon_code, now) ==
    /\ Len(orders) < MaxOrders
    /\ \E price_calc \in calculate_order_price(course_ids, user, coupon_code, now) :
          LET r == create_order(price_calc, NextOrderId, user, coupon_code) IN
          /\ orders' = orders \o r.persisted
          /\ last' = [ op |-> "create_order", user |-> user, course_ids |-> course_ids,
                       coupon_code |-> coupon_code, now |-> now, result |-> r.result ]
    /\ UNCHANGED <<catalog, rd, cache, coupons, usages, discounts, history, ud, dirty>>

\* order_data as create_order computes it from a price: discount_total is
\* coupon_discount + auto_discount and final_total is max(original_total -
\* discount_total, 0) (order_service.py lines 142-143).  69800 / 20000 / 5000 / 49800
\* are the amounts of test_create_order_with_items.
OrderDatas ==
    { [ order_id |-> NoneStr, original_total |-> original_total,
        discount_total |-> coupon_discount + auto_discount,
        final_total |-> Max(original_total - (coupon_discount + auto_discount), 0),
        coupon_discount |-> coupon_discount,
        coupon_code |-> IF coupon_discount > 0 THEN "PYTHON50" ELSE NoneStr ] :
      original_total \in {10000, 69800}, coupon_discount \in {0, 5000},
      auto_discount \in {0, 15000} }

\* OrderRepository.create_order_with_items
CreateOrderWithItems(order_data, user) ==
    /\ Len(orders) < MaxOrders
    /\ orders' = Append(orders, NewOrder([ order_data EXCEPT !.order_id = NextOrderId ], user))
    /\ last' = [ op |-> "create_order_with_items", order_id |-> NextOrderId ]
    /\ UNCHANGED <<catalog, rd, cache, coupons, usages, discounts, history, ud, dirty>>

NextOrder ==
    \/ \E user \in Users, tv \in DiscountTypesAndValues, reasoning \in Reasonings :
          CreateAppliedDiscount(user, tv[1], tv[2], NoneStr, reasoning, 1)
    \/ \E user \in Users, course_ids \in CourseIdLists,
          coupon_code \in CouponCodes \cup {NoneStr}, now \in {1, 3} :
          CreateOrder(user, course_ids, coupon_code, now)
    \/ \E order_data \in OrderDatas, user \in Users : CreateOrderWithItems(order_data, user)

SpecOrder == InitLedger /\ [][NextOrder]_vars

\* C3: every persisted order satisfies
\* |final_amount - (original_amount - discount_amount - coupon_discount)| <= 0.01,
\* with or without a coupon discount, and when the discounts exceed the original amount.
C3_OrderAmountsConsistent ==
    \A i \in 1 .. Len(orders) :
        LET expected == orders[i].original_amount - orders[i].discount_amount
                        - orders[i].coupon_discount
        IN  /\ orders[i].final_amount - expected <= 1
            /\ expected - orders[i].final_amount <= 1

(***************************************************************************)
(* CouponService: reads through coupon_cache, and the coupon writes        *)
(***************************************************************************)
\* the methods class CouponRepository defines
CouponRepositoryMethods ==
    { "get_by_coupon_code", "get_by_coupon_id", "get_valid_coupons",
      "get_user_available_coupons", "validate_coupon_for_user",
      "get_user_coupon_usage_count", "get_user_coupon_usage_history", "use_coupon",
      "get_coupon_stats", "get_expiring_coupons", "to_model" }

\* cache keys "code:<code>", "valid:all" and "user:<user_id>:amount:<order_amount>"
CodeKey(code) == <<"code", code, 0>>

ValidKey == <<"valid", "all", 0>>

UserKey(user, order_amount) == <<"user", user, order_amount>>

\* SimpleCache.get: the stored value, None for an absent (or expired) key.  Values
\* are sets of coupon rows; every reader tests the value by truthiness, so None and
\* an empty list read alike.
CacheGet(key) == IF key \in DOMAIN cache THEN cache[key] ELSE {}

\* SimpleCache.set
CacheSet(c, key, value) ==
    [ k \in DOMAIN c \cup {key} |-> IF k = key THEN value ELSE c[k] ]

\* SimpleCache.delete_pattern, for the keys a pattern matches
DeleteKeys(c, keys) == [ k \in DOMAIN c \ keys |-> c[k] ]

\* _clear_coupon_caches: "valid:*" always ("expiring:*" has no key here),
\* "code:<coupon_code>" when a code is given, "user:<user_id>:*" when a user is given
_clear_coupon_caches(c, coupon_code, user) ==
    DeleteKeys(c, { k \in DOMAIN c :
                      \/ k[1] = "valid"
                      \/ coupon_code # NoneStr /\ k = CodeKey(coupon_code)
                      \/ user # NoneStr /\ k[1] = "user" /\ k[2] = user })

\* CouponRepository.get_valid_coupons: the coupon_ids the query selects
get_valid_coupons(now) ==
    { id \in DOMAIN coupons :
        LET c == coupons[id] IN
        /\ c.status = "active"
        /\ c.valid_from <= now
        /\ c.valid_to >= now
        /\ SqlLess(c.used_count, c.usage_limit) }

RowsOf(ids) == { coupons[id] : id \in ids }

CacheTimes == {1, 3}

\* CouponService.get_coupon_by_code
GetCouponByCode(code, use_cache) ==
    LET key == CodeKey(code)
        hit == use_cache /\ CacheGet(key) # {}
        rows == RowsOf(get_by_coupon_code(code))
    IN
    /\ last' = [ op |-> "get_coupon_by_code", key |-> key, hit |-> hit,
                 result |-> IF hit THEN CacheGet(key) ELSE rows ]
    /\ cache' = IF ~hit /\ rows # {} /\ use_cache THEN CacheSet(cache, key, rows) ELSE cache
    /\ UNCHANGED <<catalog, rd, coupons, usages, discounts, history, orders, ud, dirty>>

\* CouponService.get_valid_coupons
GetValidCoupons(use_cache, now) ==
    LET hit == use_cache /\ CacheGet(ValidKey) # {}
        rows == RowsOf(get_valid_coupons(now))
    IN
    /\ last' = [ op |-> "get_valid_coupons", key |-> ValidKey, hit |-> hit,
                 result |-> IF hit THEN CacheGet(ValidKey) ELSE rows ]
    /\ cache' = IF ~hit /\ use_cache THEN CacheSet(cache, ValidKey, rows) ELSE cache
    /\ UNCHANGED <<catalog, rd, coupons, usages, discounts, history, orders, ud, dirty>>

\* CouponService.get_user_available_coupons
GetUserAvailableCouponsCached(user, order_amount, use_cache, now) ==
    LET key == UserKey(user, order_amount)
        hit == use_cache /\ CacheGet(key) # {}
        rows == RowsOf(get_user_available_coupons(user, order_amount, now))
    IN
    /\ last' = [ op |-> "get_user_available_coupons", key |-> key, hit |-> hit,
                 result |-> IF hit THEN CacheGet(key) ELSE rows ]
    /\ cache' = IF ~hit /\ use_cache THEN CacheSet(cache, key, rows) ELSE cache
    /\ UNCHANGED <<catalog, rd, coupons, usages, discounts, history, orders, ud, dirty>>

\* a key's time to live runs out (every value is stored with setex)
CacheExpire(key) ==
    /\ key \in DOMAIN cache
    /\ cache' = DeleteKeys(cache, {key})
    /\ last' = [ op |-> "expire", key |-> key ]
    /\ UNCHANGED <<catalog, rd, coupons, usages, discounts, history, orders, ud, dirty>>

\* CouponService.update_coupon with a CouponUpdate that sets status
UpdateCoupon(id, status) ==
    LET found == get_by_coupon_id(id) IN
    IF found = {}
    THEN /\ last' = [ op |-> "update_coupon", coupon_id |-> id, found |-> FALSE,
                      result |-> Returned(NoneStr) ]
         /\ UNCHANGED <<catalog, rd, cache, coupons, usages, discounts, history, orders,
                        ud, dirty>>
    ELSE IF "update" \notin CouponRepositoryMethods
    THEN /\ last' = [ op |-> "update_coupon", coupon_id |-> id, found |-> TRUE,
                      result |-> Raised("AttributeError") ]
         /\ UNCHANGED <<catalog, rd, cache, coupons, usages, discounts, history, orders,
                        ud, dirty>>
    ELSE /\ coupons' = [ coupons EXCEPT ![id].status = status ]
         /\ cache' = _clear_coupon_caches(cache, coupons[id].coupon_code, NoneStr)
         /\ last' = [ op |-> "update_coupon", coupon_id |-> id, found |-> TRUE,
                      result |-> Returned(coupons'[id]) ]
         /\ dirty' = TRUE
         /\ UNCHANGED <<catalog, rd, usages, discounts, history, orders, ud>>

\* CouponService.use_coupon: the validation is called with discount_amount as the
\* order amount; the coupon is then named by validation.coupon_id
ServiceUseCoupon(coupon_code, user, discount_amount, now, outcome) ==
    LET validation == validate_coupon_for_user(coupon_code, user, discount_amount, now) IN
    IF ~validation.is_valid
    THEN /\ last' = [ op |-> "service_use_coupon", coupon_code |-> coupon_code,
                      valid |-> FALSE, result |-> Returned(FALSE) ]
         /\ UNCHANGED <<catalog, rd, cache, coupons, usages, discounts, history, orders,
                        ud, dirty>>
    ELSE IF "coupon_id" \notin CouponValidationFields
    THEN /\ last' = [ op |-> "service_use_coupon", coupon_code |-> coupon_code,
                      valid |-> TRUE, result |-> Raised("AttributeError") ]
         /\ UNCHANGED <<catalog, rd, cache, coupons, usages, discounts, history, orders,
                        ud, dirty>>
    ELSE /\ use_coupon(CHOOSE id \in get_by_coupon_code(coupon_code) : TRUE, user, "o1",
                       discount_amount, outcome)
         /\ cache' = IF last'.result
                     THEN _clear_coupon_caches(cache, coupon_code, user) ELSE cache
         /\ UNCHANGED <<catalog, rd, discounts, history, orders, ud>>

NextCache ==
    \/ \E code \in CouponCodes, use_cache \in BOOLEAN : GetCouponByCode(code, use_cache)
    \/ \E use_cache \in BOOLEAN, now \in CacheTimes : GetValidCoupons(use_cache, now)
    \/ \E user \in Users, amount \in RedeemAmounts, use_cache \in BOOLEAN, now \in CacheTimes :
          GetUserAvailableCouponsCached(user, amount, use_cache, now)
    \/ \E key \in DOMAIN cache : CacheExpire(key)
    \/ \E id \in CouponIds, status \in {"active", "inactive"} : UpdateCoupon(id, status)
    \/ \E code \in CouponCodes, user \in Users, amount \in RedeemAmounts, now \in CacheTimes,
          outcome \in PostgresOutcomes :
          ServiceUseCoupon(code, user, amount, now, outcome)
    \/ \E user \in Users : CreateOrder(user, <<"c1">>, "PYTHON50", 1)

SpecCache == InitRedeem /\ [][NextCache]_vars

\* the call just completed is one of the coupon writes: update_coupon of a stored
\* coupon, use_coupon of a coupon that validates, create_order with a coupon that
\* gives a discount
CouponWriteCall(l) ==
    \/ l.op = "update_coupon" /\ l.found
    \/ l.op = "service_use_coupon" /\ l.valid
    \/ /\ l.op = "create_order"
       /\ l.coupon_code # NoneStr
       /\ ExpectedCouponDiscount(l.coupon_code, l.user,
                                 SumPrices(_get_courses(l.course_ids)), l.now) > 0

\* every coupon row a cached read can return is the row the store holds
CachedRowsCurrent(c, cps) ==
    \A k \in DOMAIN c : \A row \in c[k] : \E id \in DOMAIN cps : cps[id] = row

\* C23: a coupon write by update_coupon, use_coupon or the coupon use of create_order
\* completes, and after it every cached read (get_coupon_by_code, get_valid_coupons,
\* get_user_available_coupons with use_cache) returns rows as the store holds them.
C23_CachedReadsCurrentAfterWrite ==
    [][ CouponWriteCall(last') =>
           /\ ~last'.result.raised
           /\ CachedRowsCurrent(cache', coupons') ]_vars

(***************************************************************************)
(* PriceCalculatorService.get_price_comparison                             *)
(***************************************************************************)
Scenario(name, discount, coupon_code) ==
    [ name |-> name, discount |-> discount, reasoning |-> "compare",
      coupon_code |-> coupon_code ]

\* lists of comparison scenarios: none, one, or two
ScenarioLists ==
    {<<>>}
    \cup { << Scenario("a", d, cc) >> : d \in Selections, cc \in {NoneStr, "PYTHON50"} }
    \cup { << Scenario("a", d1, NoneStr), Scenario("b", d2, NoneStr) >> :
             d1 \in Selections, d2 \in Selections }

\* results.sort(key=savings, reverse=True): a stable sort, largest savings first
RECURSIVE SortBySavings(_)
SortBySavings(results) ==
    IF results = <<>> THEN <<>>
    ELSE LET first == CHOOSE i \in 1 .. Len(results) :
                         /\ \A j \in 1 .. Len(results) : results[j].savings <= results[i].savings
                         /\ \A j \in 1 .. (i - 1) : results[j].savings < results[i].savings
             rest == [ k \in 1 .. (Len(results) - 1) |->
                         IF k < first THEN results[k] ELSE results[k + 1] ]
         IN  << results[first] >> \o SortBySavings(rest)

RECURSIVE ConcatAll(_)
ConcatAll(seqs) == IF seqs = <<>> THEN <<>> ELSE Head(seqs) \o ConcatAll(Tail(seqs))

\* The scenario loop over the outcomes of its apply_agent_discount_decision calls:
\* the first scenario that raises ends the call; otherwise one result per scenario,
\* sorted by savings, and the rows the calls created.
compare_scenarios(comparison_scenarios, calls) ==
    LET n == Len(comparison_scenarios)
        raising == { i \in 1 .. n : calls[i].result.raised }
    IN  IF raising # {}
        THEN [ result |-> calls[CHOOSE i \in raising : \A j \in raising : i <= j].result,
               created |-> <<>> ]
        ELSE [ result |-> Returned(SortBySavings(
                              [ i \in 1 .. n |->
                                  [ scenario_name |-> comparison_scenarios[i].name,
                                    savings |-> calls[i].result.value.original_total
                                                  - calls[i].result.value.final_total ] ])),
               created |-> ConcatAll([ i \in 1 .. n |-> calls[i].created ]) ]

\* What the call gives back and the applied-discount rows its session commits: one
\* apply_agent_discount_decision per scenario; a scenario that raises ends the call
\* and get_db_session rolls the session back.
get_price_comparison(course_ids, user, comparison_scenarios, now) ==
    IF _get_courses(course_ids) = <<>>
    THEN [ result |-> Returned(<<>>), created |-> <<>> ]
    ELSE compare_scenarios(comparison_scenarios,
             [ i \in 1 .. Len(comparison_scenarios) |->
                 apply_agent_discount_decision(user, course_ids,
                                               comparison_scenarios[i].discount,
                                               comparison_scenarios[i].reasoning,
                                               comparison_scenarios[i].coupon_code, now) ])

GetPriceComparison(course_ids, user, comparison_scenarios, now) ==
    /\ Len(discounts) + Len(comparison_scenarios) <= MaxDiscounts
    /\ LET r == get_price_comparison(course_ids, user, comparison_scenarios, now) IN
       /\ discounts' = discounts \o r.created
       /\ last' = [ op |-> "get_price_comparison", user |-> user, course_ids |-> course_ids,
                    comparison_scenarios |-> comparison_scenarios, now |-> now,
                    result |-> r.result ]
    /\ UNCHANGED <<catalog, rd, cache, coupons, usages, history, orders, ud, dirty>>

NextCompare ==
    \/ \E user \in Users, tv \in DiscountTypesAndValues, reasoning \in Reasonings :
          CreateAppliedDiscount(user, tv[1], tv[2], NoneStr, reasoning, 1)
    \/ \E user \in Users, course_ids \in CourseIdLists,
          comparison_scenarios \in ScenarioLists, now \in {1, 3} :
          GetPriceComparison(course_ids, user, comparison_scenarios, now)

SpecCompare == InitLedger /\ [][NextCompare]_vars

ResolvedCourseLists == { <<"c1">>, <<"c1", "c2">> }

CouponCodesOrNone == CouponCodes \cup {NoneStr}

CalculateBasePrice(courses, user, coupon_code, now) ==
    /\ last' = [ op |-> "_calculate_base_price", courses |-> courses, user |-> user,
                 coupon_code |-> coupon_code, now |-> now,
                 result |-> _calculate_base_price(courses, user, coupon_code, now) ]
    /\ UNCHANGED <<catalog, rd, cache, coupons, usages, discounts, history, orders, ud, dirty>>

NextBase ==
    \E courses \in ResolvedCourseLists, user \in Users, coupon_code \in CouponCodesOrNone,
       now \in Times :
        CalculateBasePrice(courses, user, coupon_code, now)

SpecBase == Init /\ [][NextBase]_vars

\* C25: a base calculation with a coupon code raises no error; when the coupon's
\* validation fails, coupon_discount is 0 and final_total is original_total; when it
\* succeeds, coupon_discount is the validator's discount for original_total and
\* final_total is original_total - coupon_discount.
C25_CouponInBaseCalculation ==
    (last.op = "_calculate_base_price" /\ last.coupon_code # NoneStr) =>
        LET original_total == SumPrices(last.courses)
            validation == validate_coupon_for_user(last.coupon_code, last.user,
                                                   original_total, last.now)
            coupon_discount == IF validation.is_valid THEN validation.estimated_discount ELSE 0
        IN  /\ ~last.result.raised
            /\ last.result.value.coupon_discount = coupon_discount
            /\ last.result.value.final_total = original_total - coupon_discount

(***************************************************************************)
(* The recommendation scores as functions of their arguments               *)
(***************************************************************************)
\* option dicts: percentage values 5, 10, 25, 30, 31 and 60 (in hundredths), fixed
\* amounts 20.00 and 400.00
ScoreOptions ==
    { [ type |-> "percentage", value |-> v ] : v \in {500, 1000, 2500, 3000, 3100, 6000} }
    \cup { [ type |-> "fixed_amount", value |-> v ] : v \in {2000, 40000} }

ScoreProfiles ==
    UserProfiles \cup
    { [ price_sensitivity |-> "low" ],
      [ price_sensitivity |-> "medium", value_perception |-> "high" ],
      [ price_sensitivity |-> "high", value_perception |-> "high" ] }

ScoreBaseAmounts == {0, 10000, 100000}

CalculateOptionScore(option, user_profile, base_amount) ==
    /\ last' = [ op |-> "option_score", option |-> option, user_profile |-> user_profile,
                 base_amount |-> base_amount,
                 result |-> _calculate_option_score(option, user_profile, base_amount) ]
    /\ UNCHANGED <<catalog, rd, cache, coupons, usages, discounts, history, orders, ud, dirty>>

CalculateNoDiscountScore(user_profile) ==
    /\ last' = [ op |-> "no_discount_score", user_profile |-> user_profile,
                 result |-> _calculate_no_discount_score(user_profile) ]
    /\ UNCHANGED <<catalog, rd, cache, coupons, usages, discounts, history, orders, ud, dirty>>

NextScore ==
    \/ \E option \in ScoreOptions, user_profile \in ScoreProfiles,
          base_amount \in ScoreBaseAmounts :
          CalculateOptionScore(option, user_profile, base_amount)
    \/ \E user_profile \in ScoreProfiles : CalculateNoDiscountScore(user_profile)

SpecScore == InitLedger /\ [][NextScore]_vars

Clamp01(x) == Max(0, Min(100, x))

\* the discount of the option as a share of the base lies in [lo%, hi%]
DiscountShareWithin(option, base_amount, lo, hi) ==
    /\ base_amount > 0
    /\ lo * base_amount <= 100 * OptionDiscountAmount(option, base_amount)
    /\ 100 * OptionDiscountAmount(option, base_amount) <= hi * base_amount

\* C24: every recommendation score lies in [0,1] and is the clamped sum: for a
\* discount option 0.5, +0.3 for high or -0.2 for low price sensitivity, +0.2 for a
\* discount of 10% to 25% of the base or -0.1 for one above 30%; for the no-discount
\* option 0.3, +0.4 for low or -0.2 for high price sensitivity, +0.2 for high value
\* perception; without a user profile the same sums apply, the discount-size term
\* included.  Scores are in hundredths.
C24_ScoresFollowFormula ==
    /\ last.op = "option_score" =>
          LET sens == Get(last.user_profile, "price_sensitivity", "medium")
              size == IF DiscountShareWithin(last.option, last.base_amount, 10, 25) THEN 20
                      ELSE IF /\ last.base_amount > 0
                              /\ 100 * OptionDiscountAmount(last.option, last.base_amount)
                                    > 30 * last.base_amount
                      THEN -10 ELSE 0
          IN  /\ last.result \in 0 .. 100
              /\ last.result =
                    Clamp01(50 + (IF sens = "high" THEN 30 ELSE IF sens = "low" THEN -20 ELSE 0)
                               + size)
    /\ last.op = "no_discount_score" =>
          LET sens == Get(last.user_profile, "price_sensitivity", "medium") IN
          /\ last.result \in 0 .. 100
          /\ last.result =
                Clamp01(30 + (IF sens = "low" THEN 40 ELSE IF sens = "high" THEN -20 ELSE 0)
                           + (IF Get(last.user_profile, "value_perception", NoneStr) = "high"
                              THEN 20 ELSE 0))

(***************************************************************************)
(* The catalog range check                                                 *)
(***************************************************************************)
OptionTypeInputs == DiscountOptionType \cup { "percentage", "loyalty" }

DiscountValueInputs == 0 .. 101

ValidateDiscountInRange(option_type, discount_value) ==
    /\ last' = [ op |-> "validate_discount_in_range", option_type |-> option_type,
                 discount_value |-> discount_value,
                 result |-> validate_discount_in_range(option_type, discount_value) ]
    /\ UNCHANGED <<catalog, rd, cache, coupons, usages, discounts, history, orders, ud, dirty>>

IsDiscountInRange(option_type, discount_value) ==
    /\ option_type \in DiscountOptionType     \* the parameter is a DiscountOptionType
    /\ last' = [ op |-> "is_discount_in_range", option_type |-> option_type,
                 discount_value |-> discount_value,
                 result |-> is_discount_in_range(option_type, discount_value) ]
    /\ UNCHANGED <<catalog, rd, cache, coupons, usages, discounts, history, orders, ud, dirty>>

NextCatalog ==
    \/ \E option_type \in OptionTypeInputs, discount_value \in DiscountValueInputs :
          ValidateDiscountInRange(option_type, discount_value)
    \/ \E option_type \in OptionTypeInputs, discount_value \in DiscountValueInputs :
          IsDiscountInRange(option_type, discount_value)

SpecCatalog == InitLedger /\ [][NextCatalog]_vars

\* C20: the range check returns true exactly when the option type is a catalog entry
\* and min_discount <= value <= max_discount (bounds inclusive), false for an unknown
\* type; every entry has 0 <= min_discount <= max_discount <= 1; the catalog is not
\* changed by the check.
C20_RangeCheckExact ==
    /\ catalog = DISCOUNT_OPTIONS_CONFIG
    /\ DOMAIN catalog = DiscountOptionType
    /\ \A k \in DOMAIN catalog :
          /\ 0 <= catalog[k].min_discount
          /\ catalog[k].min_discount <= catalog[k].max_discount
          /\ catalog[k].max_discount <= 100
    /\ last.op \in { "validate_discount_in_range", "is_discount_in_range" } =>
          IF last.option_type \in DiscountOptionType
          THEN last.result <=>
                  /\ last.discount_value >= catalog[last.option_type].min_discount
                  /\ last.discount_value <= catalog[last.option_type].max_discount
          ELSE last.result = FALSE

\* a value lying on a bound of its entry was accepted
C20_Witness ==
    /\ last.op = "validate_discount_in_range"
    /\ last.option_type = "new_user"
    /\ last.discount_value \in { 10, 30 }
    /\ last.result

(***************************************************************************)
(* Choosing a user's best applied discount                                 *)
(***************************************************************************)
CourseIdsOrNone == { NoneStr, "c1", "c2" }

\* result: the id of the record returned, 0 for None
GetBestDiscountForUser(user, course_id, order_amount, now) ==
    /\ LET best == get_best_discount_for_user(user, course_id, order_amount, now) IN
       \E b \in IF best = {} THEN {0} ELSE best :
          last' = [ op |-> "get_best_discount_for_user", user |-> user,
                    course_id |-> course_id, order_amount |-> order_amount, now |-> now,
                    result |-> b ]
    /\ UNCHANGED <<catalog, rd, cache, coupons, usages, discounts, history, orders, ud, dirty>>

NextBest ==
    \/ \E user \in Users, tv \in DiscountTypesAndValues, course_id \in CourseIdsOrNone,
          reasoning \in Reasonings :
          CreateAppliedDiscount(user, tv[1], tv[2], course_id, reasoning, 1)
    \/ \E id \in 1 .. MaxDiscounts : UseDiscountCall("r1", id, OrderOf("r1"))
    \/ UseDiscountUpdate("r1")
    \/ UseDiscountFinish("r1")
    \/ \E user \in Users, course_id \in CourseIdsOrNone, order_amount \in {None, 0, 100000},
          now \in {1, 30} :
          GetBestDiscountForUser(user, course_id, order_amount, now)

SpecBest == InitLedger /\ [][NextBest]_vars

\* the records the specification lets the lookup return
Eligible(user, course_id, now) ==
    { i \in 1 .. Len(discounts) :
         /\ discounts[i].user_id = user
         /\ ~discounts[i].is_used
         /\ discounts[i].valid_until > now
         /\ course_id # NoneStr => discounts[i].course_id \in { course_id, NoneStr } }

\* the discount a record gives on order_amount: order_amount * value for a percentage
\* (value a fraction), min(value, order_amount) for a fixed amount
ActualDiscountAmount(discount, order_amount) ==
    IF discount.discount_type = "percentage"
    THEN (order_amount * discount.discount_value) \div 100
    ELSE Min(discount.discount_value, order_amount)

NoSelection == [ type |-> "absent", value |-> 0 ]

\* Every exception is caught and answered with status "error"; the session then
\* commits what was flushed before the exception.
CreateOrderForAgent(user, course_ids, selected, reasoning, coupon_code, now) ==
    /\ Len(orders) < MaxOrders
    /\ Len(discounts) < MaxDiscounts
    /\ LET applies == selected # NoSelection /\ reasoning # NoneStr
           applied == IF applies
                      THEN apply_agent_discount_decision(user, course_ids, selected, reasoning,
                                                         coupon_code, now)
                      ELSE [ result |-> Returned(NoneStr), created |-> <<>> ]
           call == [ op |-> "create_order_for_agent", user |-> user,
                     course_ids |-> course_ids, selected |-> selected,
                     reasoning |-> reasoning, coupon_code |-> coupon_code, now |-> now ]
       IN
       /\ discounts' = discounts \o applied.created
       /\ UNCHANGED <<catalog, rd, cache, coupons, usages, history, ud, dirty>>
       /\ IF applied.result.raised
          THEN /\ orders' = orders
               /\ last' = call @@ [ result |-> [ status |-> "error",
                                                 message |-> applied.result.error ] ]
          ELSE \E price_calc \in calculate_order_price(course_ids, user, coupon_code, now)' :
                  LET r == create_order(price_calc, NextOrderId, user, coupon_code) IN
                  /\ orders' = orders \o r.flushed
                  /\ last' = call @@
                        [ result |-> IF r.result.raised
                                     THEN [ status |-> "error", message |-> r.result.error ]
                                     ELSE [ status |-> "success", order |-> r.result.value ] ]

NextAgent ==
    \/ \E user \in Users, tv \in DiscountTypesAndValues, reasoning \in Reasonings :
          CreateAppliedDiscount(user, tv[1], tv[2], NoneStr, reasoning, 1)
    \/ \E user \in Users, course_ids \in CourseIdLists,
          selected \in Selections \cup {NoSelection}, reasoning \in Reasonings \cup {NoneStr},
          coupon_code \in CouponCodes \cup {NoneStr}, now \in {1, 3} :
          CreateOrderForAgent(user, course_ids, selected, reasoning, coupon_code, now)

SpecAgent == InitLedger /\ [][NextAgent]_vars

\* C21: when the agent's decision has been applied and the order is created next for
\* the same user, courses and coupon, the order exists and its final_amount is the
\* final_total of the decision, original_total - coupon discount - agent discount
\* floored at 0, whatever other unused applied discounts the user holds.
C21_OrderAtAppliedTotal ==
    (/\ last.op = "create_order_for_agent"
     /\ last.selected # NoSelection /\ last.reasoning # NoneStr
     /\ _get_courses(last.course_ids) # <<>>) =>
        LET original_total == SumPrices(_get_courses(last.course_ids)) IN
        /\ last.result.status = "success"
        /\ last.result.order.final_amount =
              Max(0, original_total
                     - ExpectedCouponDiscount(last.coupon_code, last.user, original_total,
                                              last.now)
                     - ExpectedAgentDiscount(last.selected, original_total))

(***************************************************************************)
(* The two discount lookups of OrderService.create_order: the one that     *)
(* prices the order and the one that names the record to mark used         *)
(***************************************************************************)
\* applied discounts a user may hold: 50% and 15% (in hundredths), 2.00 and 50.00
HeldDiscountTypesAndValues ==
    { <<"percentage", 50>>, <<"percentage", 15>>, <<"fixed_amount", 200>>,
      <<"fixed_amount", 5000>> }

\* priced: the record calculate_order_price takes auto_discount from (lines 128-139);
\* marked: the record create_order hands to use_discount when auto_discount > 0
\* (lines 213-221); 0 stands for no record.  Rows that tie on discount_value come in
\* the store's order, either one, the same for both queries.
CreateOrderLookups(user, course_ids, now) ==
    /\ LET original_total == SumPrices(_get_courses(course_ids))
           pricing == get_best_discount_for_user(user, NoneStr, original_total, now)
           marking == get_best_discount_for_user(user, NoneStr, None, now)
       IN  \E newest_first \in BOOLEAN :
              LET first(rows) ==
                      IF rows = {} THEN 0
                      ELSE CHOOSE i \in rows :
                              \A j \in rows : IF newest_first THEN j <= i ELSE i <= j
                  p == first(pricing)
                  auto_discount == IF p = 0 THEN 0
                                   ELSE _calculate_discount_amount(discounts[p], original_total)
              IN  last' = [ op |-> "create_order_lookups", user |-> user,
                            course_ids |-> course_ids, now |-> now,
                            auto_discount |-> auto_discount, priced |-> p,
                            marked |-> IF auto_discount > 0 THEN first(marking) ELSE 0 ]
    /\ UNCHANGED <<catalog, rd, cache, coupons, usages, discounts, history, orders, ud, dirty>>

NextMark ==
    \/ \E user \in Users, tv \in HeldDiscountTypesAndValues, reasoning \in Reasonings :
          CreateAppliedDiscount(user, tv[1], tv[2], NoneStr, reasoning, 1)
    \/ \E user \in Users, course_ids \in ResolvedCourseLists, now \in {1, 30} :
          CreateOrderLookups(user, course_ids, now)

SpecMark == InitLedger /\ [][NextMark]_vars

OrderStatus == { "pending", "confirmed", "paid", "cancelled", "refunded" }

\* enum PaymentStatus
PaymentStatus == { "pending", "paid", "failed", "refunded", "partial_refunded" }

OrderIds == { "o1", "o2", "o9" }     \* o9 is never stored

\* rows with order_id = order_id
OrdersWithId(order_id) == { i \in 1 .. Len(orders) : orders[i].order_id = order_id }

\* OrderRepository.update_order_status: only the arguments that are given are written
\* (updated_at always is, so a stored order always counts as updated); no check of the
\* current status is made
RepoUpdateOrderStatus(order_id, order_status, payment_status) ==
    /\ orders' = [ i \in 1 .. Len(orders) |->
                     IF i \in OrdersWithId(order_id)
                     THEN [ orders[i] EXCEPT
                              !.order_status = IF order_status # NoneStr THEN order_status ELSE @,
                              !.payment_status = IF payment_status # NoneStr THEN payment_status
                                                 ELSE @ ]
                     ELSE orders[i] ]
    /\ last' = [ op |-> "update_order_status", order_id |-> order_id,
                 order_status |-> order_status, payment_status |-> payment_status,
                 result |-> OrdersWithId(order_id) # {} ]
    /\ UNCHANGED <<catalog, rd, cache, coupons, usages, discounts, history, ud, dirty>>

\* a cancel that accepts an order in any status
CancellableStatusesAny ==
    OrderStatus \cup { "completed", "payment_failed" }

\* OrderRepository.cancel_order: WHERE order_status IN ('pending', 'confirmed')
CancellableStatuses ==
    { "pending", "confirmed" }

\* rows matched by the UPDATE of OrderRepository.cancel_order
CancelMatches(order_id) ==
    { i \in OrdersWithId(order_id) : orders[i].order_status \in CancellableStatuses }

\* OrderRepository.cancel_order
RepoCancelOrder(order_id) ==
    /\ orders' = [ i \in 1 .. Len(orders) |->
                     IF i \in CancelMatches(order_id)
                     THEN [ orders[i] EXCEPT !.order_status = "cancelled" ]
                     ELSE orders[i] ]
    /\ last' = [ op |-> "cancel_order", order_id |-> order_id,
                 result |-> CancelMatches(order_id) # {} ]
    /\ UNCHANGED <<catalog, rd, cache, coupons, usages, discounts, history, ud, dirty>>

\* OrderRepository.to_model: Order(...) validates the statuses against the enums and
\* final_amount against original_amount - discount_amount - coupon_discount
to_model(db_order) ==
    LET expected == db_order.original_amount - db_order.discount_amount
                    - db_order.coupon_discount
    IN  IF \/ db_order.order_status \notin OrderStatus
           \/ db_order.payment_status \notin PaymentStatus
           \/ db_order.final_amount - expected > 1
           \/ expected - db_order.final_amount > 1
        THEN Raised("ValidationError")
        ELSE Returned(db_order)

\* OrderService.cancel_order: get_order_by_id(use_cache=False), then the repository call
ServiceCancelOrder(order_id) ==
    /\ LET found == OrdersWithId(order_id)
           raises == \E i \in found : to_model(orders[i]).raised
       IN  /\ orders' = [ i \in 1 .. Len(orders) |->
                            IF ~raises /\ i \in CancelMatches(order_id)
                            THEN [ orders[i] EXCEPT !.order_status = "cancelled" ]
                            ELSE orders[i] ]
           /\ last' = [ op |-> "service_cancel_order", order_id |-> order_id,
                        result |-> IF raises THEN Raised("ValidationError")
                                   ELSE Returned(CancelMatches(order_id) # {}) ]
    /\ UNCHANGED <<catalog, rd, cache, coupons, usages, discounts, history, ud, dirty>>

\* the keyword parameters of OrderRepository.update_order_status
UpdateOrderStatusParameters ==
    { "order_id", "order_status", "payment_status", "payment_method", "paid_at" }

\* OrderService.update_order_status: the repository method is called with the keyword
\* payment_time
update_order_status(order_id, order_status, payment_status) ==
    IF "payment_time" \notin UpdateOrderStatusParameters
    THEN [ result |-> Raised("TypeError"), written |-> FALSE ]
    ELSE [ result |-> Returned(OrdersWithId(order_id) # {}), written |-> TRUE ]

\* what a service call writes to the orders table
OrdersAfterServiceUpdate(call, order_id, order_status, payment_status) ==
    IF ~call.written THEN orders
    ELSE [ i \in 1 .. Len(orders) |->
             IF i \in OrdersWithId(order_id)
             THEN [ orders[i] EXCEPT
                      !.order_status = IF order_status # NoneStr THEN order_status ELSE @,
                      !.payment_status = IF payment_status # NoneStr THEN payment_status ELSE @ ]
             ELSE orders[i] ]

ServiceUpdateOrderStatus(order_id, order_status, payment_status) ==
    /\ LET call == update_order_status(order_id, order_status, payment_status) IN
       /\ orders' = OrdersAfterServiceUpdate(call, order_id, order_status, payment_status)
       /\ last' = [ op |-> "service_update_order_status", order_id |-> order_id,
                    order_status |-> order_status, payment_status |-> payment_status,
                    result |-> call.result ]
    /\ UNCHANGED <<catalog, rd, cache, coupons, usages, discounts, history, ud, dirty>>

\* OrderService.process_payment: paid / paid on success, payment_failed / failed otherwise
ProcessPayment(order_id, payment_result) ==
    /\ LET order_status == IF payment_result = "success" THEN "paid" ELSE "payment_failed"
           payment_status == IF payment_result = "success" THEN "paid" ELSE "failed"
           call == update_order_status(order_id, order_status, payment_status)
       IN  /\ orders' = OrdersAfterServiceUpdate(call, order_id, order_status, payment_status)
           /\ last' = [ op |-> "process_payment", order_id |-> order_id,
                        payment_result |-> payment_result, result |-> call.result ]
    /\ UNCHANGED <<catalog, rd, cache, coupons, usages, discounts, history, ud, dirty>>

\* the orders of the status specification: one without a coupon, one with
StatusOrderDatas ==
    { od \in OrderDatas : od.original_total = 69800 /\ od.discount_total = od.coupon_discount }

NextStatus ==
    \/ \E order_data \in StatusOrderDatas : CreateOrderWithItems(order_data, "u1")
    \/ \E order_id \in OrderIds, order_status \in { NoneStr, "pending", "confirmed", "paid", "completed" },
          payment_status \in { NoneStr, "paid" } :
          RepoUpdateOrderStatus(order_id, order_status, payment_status)
    \/ \E order_id \in OrderIds : RepoCancelOrder(order_id)
    \/ \E order_id \in OrderIds : ServiceCancelOrder(order_id)
    \/ \E order_id \in OrderIds, order_status \in { NoneStr, "paid" },
          payment_status \in { NoneStr, "paid" } :
          ServiceUpdateOrderStatus(order_id, order_status, payment_status)
    \/ \E order_id \in OrderIds, payment_result \in { "success", "failure" } :
          ProcessPayment(order_id, payment_result)

SpecStatus == InitLedger /\ [][NextStatus]_vars

\* C18: OrderRepository.cancel_order returns true and sets order_status to cancelled
\* only for a stored order whose status is pending or confirmed; for any other status
\* or a missing order it returns false and leaves the orders as they were.
C18_CancelOnlyPendingOrConfirmed ==
    [][ last'.op = "cancel_order" =>
          LET found == OrdersWithId(last'.order_id)
              ok == \E i \in found : orders[i].order_status \in { "pending", "confirmed" }
          IN  /\ last'.result = ok
              /\ IF ok
                 THEN /\ \A i \in found : orders'[i] = [ orders[i] EXCEPT
                                                           !.order_status = "cancelled" ]
                      /\ \A i \in (1 .. Len(orders)) \ found : orders'[i] = orders[i]
                 ELSE orders' = orders ]_vars

\* a pending order was cancelled, and cancelling a completed order was refused
C18_Witness ==
    /\ Len(orders) = 2
    /\ orders[1].order_status = "cancelled"
    /\ orders[2].order_status = "completed"
    /\ last = [ op |-> "cancel_order", order_id |-> "o2", result |-> FALSE ]

\* C19: an order's order_status only moves from pending to paid or to cancelled, and
\* its payment_status only from pending to paid, failed or refunded.
C19_StatusTransitions ==
    [][ \A i \in 1 .. Len(orders) :
          /\ orders'[i].order_status # orders[i].order_status =>
                /\ orders[i].order_status = "pending"
                /\ orders'[i].order_status \in { "paid", "cancelled" }
          /\ orders'[i].payment_status # orders[i].payment_status =>
                /\ orders[i].payment_status = "pending"
                /\ orders'[i].payment_status \in { "paid", "failed", "refunded" } ]_vars

====
